---- MODULE Spec2Model ----
(***************************************************************************)
(* OpenAIStreamer (src/adapter/adapters/openai/streamer.rs): the state     *)
(* machine that turns the events of an EventSource into InterStreamEvents. *)
(* One poll_next call is a PollNextDone step, or a run of Inner* steps     *)
(* (one per iteration of the `while let Poll::Ready(event)` loop) that     *)
(* ends with the step that returns.  ChatStream (src/chat/chat_stream.rs)  *)
(* wraps the streamer: its poll_next is one poll_next of the streamer, and *)
(* what it returns is what the streamer returned, converted.               *)
(*                                                                         *)
(* Strings are sequences of one-character strings; Option<T> is a sequence *)
(* of at most one element (None is <<>>, Some(x) is <<x>>).                *)
(***************************************************************************)
EXTENDS Integers, Sequences, FiniteSets, TLC

VARIABLES
  inner,                     \* the EventSource: the payloads it may deliver and how often it answers
  options,                   \* StreamerOptions: the capture flags and the adapter kind
  done,                      \* set by poll_next on "[DONE]"
  captured_data,             \* StreamerCapturedData
  partial_openai_tool_call,  \* Option<OpenAIToolCall>
  pc,                        \* "idle": no poll_next call is running; "loop": inside its while loop
  returned,                  \* what the last poll_next call returned
  polled,                    \* every result inner.poll_next has produced, in order
  emitted,                   \* every Some(..) item poll_next has returned, in order
  chat_returned,             \* what the last ChatStream::poll_next call returned
  chat_emitted               \* every Some(..) item ChatStream::poll_next has returned, in order

vars == <<inner, options, done, captured_data, partial_openai_tool_call, pc,
          returned, polled, emitted, chat_returned, chat_emitted>>

\* Bounds of the model: the number of times the EventSource is polled, in a stream
\* with every kind of message and in a stream of tool call fragments.
MaxPolls == 3

MaxToolPolls == 4

-----------------------------------------------------------------------------
\* Option<T>

None == <<>>

Some(x) == <<x>>

IsSome(o) == Len(o) = 1

\* String::push_str
PushStr(s, t) == s \o t

\* Option<String>: None and "" are different values
EmptyString == <<>>

-----------------------------------------------------------------------------
\* What the EventSource can produce.

\* message.data: the end sentinel, a text that is no JSON, or a JSON document.
DoneData == [kind |-> "[DONE]"]

MalformedData == [kind |-> "malformed"]

\* A tool call fragment as it is on the wire: every key may be absent.
ToolJson(index, id, name, arguments) ==
  [index |-> index, id |-> id, name |-> name, arguments |-> arguments]

\* choices[0]: finish_reason, delta.content, delta.tool_calls[0], delta.reasoning_content
Choice(finish_reason, content, tool_call, reasoning_content) ==
  [finish_reason |-> finish_reason, content |-> content, tool_call |-> tool_call,
   reasoning_content |-> reasoning_content]

\* A JSON document: choices[0], usage and x_groq.usage, each present or not.
JsonData(choice, usage, x_groq_usage) ==
  [kind |-> "json", choice |-> choice, usage |-> usage, x_groq_usage |-> x_groq_usage]

EventOpen == [type |-> "Open"]

EventMessage(data) == [type |-> "Message", data |-> data]

\* The results of inner.poll_next that carry no event.
SourcePending == [type |-> "Pending"]

SourceErr == [type |-> "Err"]

SourceNone == [type |-> "None"]

-----------------------------------------------------------------------------
\* OpenAIToolCall and its conversions.

\* #[derive(Deserialize)] struct OpenAIToolCall: index is required, id, function.name
\* and function.arguments are #[serde(default)].
DeserializeToolCall(j) ==
  IF IsSome(j.index)
    THEN Some([index |-> j.index[1],
               id |-> IF IsSome(j.id) THEN j.id[1] ELSE EmptyString,
               function |-> [name |-> IF IsSome(j.name) THEN j.name[1] ELSE EmptyString,
                             arguments |-> IF IsSome(j.arguments) THEN j.arguments[1]
                                                                  ELSE EmptyString]])
    ELSE None

\* serde_json::Value::default()
JsonNull == [json |-> "Null"]

AllOnes(s) == \A i \in 1..Len(s) : s[i] = "1"

\* serde_json::from_str::<Value>(text), over the characters "{", "}" and "1":
\* the texts that parse are the empty object and the numbers.
JsonFromStr(text) ==
  IF text = <<"{", "}">> THEN Some([json |-> "Object"])
  ELSE IF Len(text) > 0 /\ AllOnes(text) THEN Some([json |-> "Number", digits |-> Len(text)])
  ELSE None

\* Mutant of ToolCallFrom: arguments that are no JSON are kept as a string value.
ToolCallFromKeepsText(tool) ==
  [call_id |-> tool.id,
   fn_name |-> tool.function.name,
   fn_arguments |-> IF IsSome(JsonFromStr(tool.function.arguments))
                      THEN JsonFromStr(tool.function.arguments)[1]
                      ELSE [json |-> "String", text |-> tool.function.arguments]]

\* impl From<OpenAIToolCall> for ToolCall
ToolCallFrom(tool) ==
  [call_id |-> tool.id,
   fn_name |-> tool.function.name,
   fn_arguments |-> IF IsSome(JsonFromStr(tool.function.arguments))
                      THEN JsonFromStr(tool.function.arguments)[1]
                      ELSE JsonNull]

\* Mutant of InterStreamChunkToolFrom: the chunk of a fragment merged into the held
\* tool call carries the merged id, name and arguments.
InterStreamChunkToolFromMerged(tool) ==
  IF IsSome(partial_openai_tool_call) /\ partial_openai_tool_call[1].index = tool.index
    THEN [id |-> PushStr(partial_openai_tool_call[1].id, tool.id),
          name |-> PushStr(partial_openai_tool_call[1].function.name, tool.function.name),
          arguments |-> PushStr(partial_openai_tool_call[1].function.arguments,
                                tool.function.arguments)]
    ELSE [id |-> tool.id, name |-> tool.function.name, arguments |-> tool.function.arguments]

\* impl From<OpenAIToolCall> for InterStreamChunkTool
InterStreamChunkToolFrom(tool) ==
  [id |-> tool.id, name |-> tool.function.name, arguments |-> tool.function.arguments]

\* impl From<OpenAIToolCall> for InterStreamChunk
InterStreamChunkFrom(tool) ==
  [kind |-> "Tool", index |-> tool.index, tool |-> InterStreamChunkToolFrom(tool)]

-----------------------------------------------------------------------------
\* Usage

\* Usage::default()
DefaultUsage == [total_tokens |-> None]

\* OpenAIAdapter::into_usage
IntoUsage(v) == [total_tokens |-> Some(v)]

\* message_data.x_take(key).map(OpenAIAdapter::into_usage).unwrap_or_default()
TakeUsage(key) == IF IsSome(key) THEN IntoUsage(key[1]) ELSE DefaultUsage

-----------------------------------------------------------------------------
\* InterStreamEvent and the items of the stream.

InterStreamEventStart == [tag |-> "Start"]

\* Mutant of InterStreamChunkContent: the chunk carries the text captured so far.
InterStreamChunkContentCaptured(content) ==
  [kind |-> "Content",
   text |-> IF IsSome(captured_data.content) THEN PushStr(captured_data.content[1], content)
                                             ELSE content]

InterStreamChunkContent(content) == [kind |-> "Content", text |-> content]

InterStreamEventChunk(chunk) == [tag |-> "Chunk", chunk |-> chunk]

InterStreamEventReasoningChunk(content) ==
  [tag |-> "ReasoningChunk", chunk |-> [kind |-> "Content", text |-> content]]

InterStreamEventEnd(inter_stream_end) == [tag |-> "End", end |-> inter_stream_end]

\* Err(Error::StreamParse { .. })
ErrStreamParse == [tag |-> "Err", error |-> "StreamParse"]

\* Err(Error::ReqwestEventSource(err))
ErrReqwestEventSource == [tag |-> "Err", error |-> "ReqwestEventSource"]

PollPending == [poll |-> "Pending", item |-> None]

PollReady(item) == [poll |-> "Ready", item |-> item]

-----------------------------------------------------------------------------
\* ChatStream: the public events and the conversions to them.

\* MessageContent::from(String): the text content of a message
MessageContentFrom(content) == [kind |-> "Text", text |-> content]

\* impl From<InterStreamEnd> for StreamEnd
StreamEndFrom(inter_end) ==
  [captured_usage |-> inter_end.captured_usage,
   captured_content |-> IF IsSome(inter_end.captured_content)
                          THEN Some(MessageContentFrom(inter_end.captured_content[1]))
                          ELSE None,
   captured_reasoning_content |-> inter_end.captured_reasoning_content,
   captured_tools |-> inter_end.captured_tools]

\* impl From<InterReasoningChunk> for StreamReasoningChunk
StreamReasoningChunkFrom(value) == [kind |-> "Content", text |-> value.text]

\* impl From<InterStreamChunk> for StreamChunk
StreamChunkFrom(value) ==
  IF value.kind = "Content"
    THEN [kind |-> "Content", text |-> value.text]
    ELSE [kind |-> "Tool", index |-> value.index,
          tool |-> [id |-> value.tool.id, name |-> value.tool.name,
                    arguments |-> value.tool.arguments]]

\* let chat_event = match event { .. }
ChatStreamEventFrom(event) ==
  CASE event.tag = "Start" -> [tag |-> "Start"]
    [] event.tag = "Chunk" -> [tag |-> "Chunk", chunk |-> StreamChunkFrom(event.chunk)]
    [] event.tag = "ReasoningChunk" ->
         [tag |-> "ReasoningChunk", chunk |-> StreamReasoningChunkFrom(event.chunk)]
    [] event.tag = "End" -> [tag |-> "End", end |-> StreamEndFrom(event.end)]

\* Mutant of ChatStreamPollNext: an error of the inner stream ends the public one.
ChatStreamPollNextErrEnds(poll) ==
  IF poll.poll = "Pending" THEN PollPending
  ELSE IF poll.item = None THEN PollReady(None)
  ELSE IF poll.item[1].tag = "Err" THEN PollReady(None)
  ELSE PollReady(Some(ChatStreamEventFrom(poll.item[1])))

\* ChatStream::poll_next: match Pin::new(&mut this.inter_stream).poll_next(cx) { .. }
ChatStreamPollNext(poll) ==
  IF poll.poll = "Pending" THEN PollPending
  ELSE IF poll.item = None THEN PollReady(None)
  ELSE IF poll.item[1].tag = "Err" THEN PollReady(Some(poll.item[1]))
  ELSE PollReady(Some(ChatStreamEventFrom(poll.item[1])))

-----------------------------------------------------------------------------
\* StreamerCapturedData::default()
DefaultCapturedData ==
  [usage |-> None, content |-> None, reasoning_content |-> None, tools |-> <<>>]

AdapterKinds == {"OpenAI", "Groq", "Xai", "DeepSeek"}

-----------------------------------------------------------------------------
\* poll_next

\* Mutant of CanPoll: the done flag is not looked at.
CanPollIgnoringDone == pc = "loop" \/ pc = "idle"

\* `if self.done { return Poll::Ready(None) }` did not return, or the call is
\* already inside its loop: inner.poll_next is called.
CanPoll == pc = "loop" \/ (pc = "idle" /\ ~done)

\* inner.poll_next(cx) is called and produces `result`.
Poll(result) ==
  /\ CanPoll
  /\ Len(polled) < inner.limit
  /\ polled' = Append(polled, result)

\* The streamer's poll_next has returned: ChatStream::poll_next returns it converted.
ChatReturn ==
  /\ chat_returned' = ChatStreamPollNext(returned')
  /\ chat_emitted' = IF chat_returned'.item = None
                       THEN chat_emitted
                       ELSE Append(chat_emitted, chat_returned'.item[1])

\* return Poll::Ready(Some(item))
Return(item) ==
  /\ returned' = PollReady(Some(item))
  /\ ChatReturn
  /\ emitted' = Append(emitted, [item |-> item, at |-> Len(polled')])
  /\ pc' = "idle"

\* Mutant of Continue: a message that emits nothing ends the call with Pending.
ContinueYields ==
  /\ returned' = PollPending
  /\ ChatReturn
  /\ pc' = "idle"
  /\ UNCHANGED emitted

\* The loop body fell through or hit `continue`: the call goes on with the next
\* inner.poll_next, having returned nothing.
Continue ==
  /\ pc' = "loop"
  /\ UNCHANGED <<returned, emitted, chat_returned, chat_emitted>>

\* if self.done { return Poll::Ready(None); }
PollNextDone ==
  /\ pc = "idle"
  /\ done
  /\ returned' = PollReady(None)
  /\ ChatReturn
  /\ UNCHANGED <<inner, options, done, captured_data, partial_openai_tool_call, pc,
                 polled, emitted>>

\* Mutant of InnerPending: a source that is not ready ends the stream.
InnerPendingEnds ==
  /\ Poll(SourcePending)
  /\ returned' = PollReady(None)
  /\ ChatReturn
  /\ pc' = "idle"
  /\ UNCHANGED <<inner, options, done, captured_data, partial_openai_tool_call, emitted>>

\* inner.poll_next is Poll::Pending: the while loop ends, Poll::Pending
InnerPending ==
  /\ Poll(SourcePending)
  /\ returned' = PollPending
  /\ ChatReturn
  /\ pc' = "idle"
  /\ UNCHANGED <<inner, options, done, captured_data, partial_openai_tool_call, emitted>>

\* Mutant of InnerOpen: Open returns nothing and the loop goes on.
InnerOpenSilent ==
  /\ Poll(EventOpen)
  /\ Continue
  /\ UNCHANGED <<inner, options, done, captured_data, partial_openai_tool_call>>

\* Some(Ok(Event::Open)) => return Poll::Ready(Some(Ok(InterStreamEvent::Start)))
InnerOpen ==
  /\ Poll(EventOpen)
  /\ Return(InterStreamEventStart)
  /\ UNCHANGED <<inner, options, done, captured_data, partial_openai_tool_call>>

\* Some(Err(err)) => return Poll::Ready(Some(Err(Error::ReqwestEventSource(err))))
InnerErr ==
  /\ Poll(SourceErr)
  /\ Return(ErrReqwestEventSource)
  /\ UNCHANGED <<inner, options, done, captured_data, partial_openai_tool_call>>

\* Mutant of InnerNone: the end of the source is returned as an error.
InnerNoneIsErr ==
  /\ Poll(SourceNone)
  /\ Return(ErrReqwestEventSource)
  /\ UNCHANGED <<inner, options, done, captured_data, partial_openai_tool_call>>

\* None => return Poll::Ready(None)
InnerNone ==
  /\ Poll(SourceNone)
  /\ returned' = PollReady(None)
  /\ ChatReturn
  /\ pc' = "idle"
  /\ UNCHANGED <<inner, options, done, captured_data, partial_openai_tool_call, emitted>>

\* let captured_usage = if self.options.capture_usage { self.captured_data.usage.take() } else { None }
CapturedUsage == IF options.capture_usage THEN captured_data.usage ELSE None

\* Mutant of FlushedPartial: the tool call in progress is read, not taken.
FlushedPartialNotTaken == partial_openai_tool_call

\* the tool call still in progress at "[DONE]" is taken when tools are captured
FlushedPartial ==
  IF options.capture_tools THEN None ELSE partial_openai_tool_call

\* Mutant of FlushedTools: the tool call in progress is not pushed at "[DONE]".
FlushedToolsNoPush == captured_data.tools

\* ... and pushed to captured_data.tools
FlushedTools ==
  IF options.capture_tools /\ IsSome(partial_openai_tool_call)
    THEN Append(captured_data.tools, ToolCallFrom(partial_openai_tool_call[1]))
    ELSE captured_data.tools

\* let inter_stream_end = InterStreamEnd { .. }
InterStreamEndOf ==
  [captured_usage |-> CapturedUsage,
   captured_content |-> captured_data.content,
   captured_reasoning_content |-> captured_data.reasoning_content,
   captured_tools |-> FlushedTools]

\* Mutant of CapturedDataAfterEnd: the content is cloned, not taken.
CapturedDataAfterEndCloned ==
  [usage |-> IF options.capture_usage THEN None ELSE captured_data.usage,
   content |-> captured_data.content,
   reasoning_content |-> None,
   tools |-> FlushedTools]

\* captured_data once usage (when captured), content and reasoning_content were
\* taken; tools is cloned, not taken.
CapturedDataAfterEnd ==
  [usage |-> IF options.capture_usage THEN None ELSE captured_data.usage,
   content |-> None,
   reasoning_content |-> None,
   tools |-> FlushedTools]

\* Mutant of InnerMessageDone: `self.done = true` is missing.
InnerMessageDoneNotSet ==
  /\ DoneData \in inner.feed
  /\ Poll(EventMessage(DoneData))
  /\ done' = done
  /\ partial_openai_tool_call' = FlushedPartial
  /\ captured_data' = CapturedDataAfterEnd
  /\ Return(InterStreamEventEnd(InterStreamEndOf))
  /\ UNCHANGED <<inner, options>>

\* if message.data == "[DONE]" { .. }
InnerMessageDone ==
  /\ DoneData \in inner.feed
  /\ Poll(EventMessage(DoneData))
  /\ done' = TRUE
  /\ partial_openai_tool_call' = FlushedPartial
  /\ captured_data' = CapturedDataAfterEnd
  /\ Return(InterStreamEventEnd(InterStreamEndOf))
  /\ UNCHANGED <<inner, options>>

\* serde_json::from_str(&message.data).map_err(..)? fails
InnerMessageParseError ==
  /\ MalformedData \in inner.feed
  /\ Poll(EventMessage(MalformedData))
  /\ Return(ErrStreamParse)
  /\ UNCHANGED <<inner, options, done, captured_data, partial_openai_tool_call>>

\* Mutant of ChoiceBranch: the tool call delta is looked at before the content delta.
ChoiceBranchToolFirst(first_choice) ==
  IF IsSome(first_choice.finish_reason) THEN "finish_reason"
  ELSE IF IsSome(first_choice.tool_call)
          /\ IsSome(DeserializeToolCall(first_choice.tool_call[1])) THEN "tool_call"
  ELSE IF IsSome(first_choice.content) THEN "content"
  ELSE IF IsSome(first_choice.reasoning_content) THEN "reasoning_content"
  ELSE "empty"

\* The branch taken for a first choice: the first of finish_reason, /delta/content,
\* /delta/tool_calls/0 and /delta/reasoning_content that x_take decodes.
ChoiceBranch(first_choice) ==
  IF IsSome(first_choice.finish_reason) THEN "finish_reason"
  ELSE IF IsSome(first_choice.content) THEN "content"
  ELSE IF IsSome(first_choice.tool_call)
          /\ IsSome(DeserializeToolCall(first_choice.tool_call[1])) THEN "tool_call"
  ELSE IF IsSome(first_choice.reasoning_content) THEN "reasoning_content"
  ELSE "empty"

\* Mutant of FinishReasonUsage: a usage already held is kept.
FinishReasonUsageFirstWins(data) ==
  IF options.capture_usage /\ ~IsSome(captured_data.usage)
    THEN CASE options.adapter_kind = "Groq" -> Some(TakeUsage(data.x_groq_usage))
           [] options.adapter_kind \in {"Xai", "DeepSeek"} -> Some(TakeUsage(data.usage))
           [] OTHER -> captured_data.usage
    ELSE captured_data.usage

\* Mutant of FinishReasonUsage: Groq reads the usage key, xAI and DeepSeek read
\* /x_groq/usage.
FinishReasonUsageSwapped(data) ==
  IF options.capture_usage
    THEN CASE options.adapter_kind = "Groq" -> Some(TakeUsage(data.usage))
           [] options.adapter_kind \in {"Xai", "DeepSeek"} -> Some(TakeUsage(data.x_groq_usage))
           [] OTHER -> captured_data.usage
    ELSE captured_data.usage

\* captured_data.usage after a message with a finish_reason
FinishReasonUsage(data) ==
  IF options.capture_usage
    THEN CASE options.adapter_kind = "Groq" -> Some(TakeUsage(data.x_groq_usage))
           [] options.adapter_kind \in {"Xai", "DeepSeek"} -> Some(TakeUsage(data.usage))
           [] OTHER -> captured_data.usage
    ELSE captured_data.usage

\* Mutant of PushCaptured: the delta is put before the text captured so far.
PushCapturedPrepend(captured, content) ==
  IF IsSome(captured) THEN Some(PushStr(content, captured[1])) ELSE Some(content)

\* match captured { Some(ref mut c) => c.push_str(&content), None => captured = Some(content.clone()) }
PushCaptured(captured, content) ==
  IF IsSome(captured) THEN Some(PushStr(captured[1], content)) ELSE Some(content)

\* Mutant of CapturedContent: capture_content is not looked at.
CapturedContentAlways(content) == PushCaptured(captured_data.content, content)

\* captured_data.content after a content delta
CapturedContent(content) ==
  IF options.capture_content THEN PushCaptured(captured_data.content, content)
                             ELSE captured_data.content

\* captured_data.reasoning_content after a reasoning delta
CapturedReasoningContent(reasoning_content) ==
  IF options.capture_reasoning_content
    THEN PushCaptured(captured_data.reasoning_content, reasoning_content)
    ELSE captured_data.reasoning_content

\* Mutant of MergeToolCall: the argument text of the fragment is put in front.
MergeToolCallPrepend(p, tool) ==
  [index |-> p.index,
   id |-> PushStr(p.id, tool.id),
   function |-> [name |-> PushStr(p.function.name, tool.function.name),
                 arguments |-> PushStr(tool.function.arguments, p.function.arguments)]]

\* p.id.push_str(..); p.function.name.push_str(..); p.function.arguments.push_str(..)
MergeToolCall(p, tool) ==
  [index |-> p.index,
   id |-> PushStr(p.id, tool.id),
   function |-> [name |-> PushStr(p.function.name, tool.function.name),
                 arguments |-> PushStr(p.function.arguments, tool.function.arguments)]]

\* Mutant of PartialAfter: a fragment always replaces the held tool call.
PartialAfterReplace(tool) == Some(tool)

\* partial_openai_tool_call after a tool call fragment
PartialAfter(tool) ==
  IF IsSome(partial_openai_tool_call)
    THEN IF tool.index = partial_openai_tool_call[1].index
           THEN Some(MergeToolCall(partial_openai_tool_call[1], tool))
           ELSE Some(tool)
    ELSE Some(tool)

\* Mutant of ToolsAfter: the call the fragment displaces is not pushed.
ToolsAfterNoPush(tool) == captured_data.tools

\* captured_data.tools after a tool call fragment
ToolsAfter(tool) ==
  IF /\ IsSome(partial_openai_tool_call)
     /\ tool.index # partial_openai_tool_call[1].index
     /\ options.capture_tools
    THEN Append(captured_data.tools, ToolCallFrom(partial_openai_tool_call[1]))
    ELSE captured_data.tools

\* Mutant of EmptyChoiceUsage: the first choice without finish_reason and delta
\* is handled as a message without a first choice.
EmptyChoiceUsageCaptured(data) ==
  IF /\ options.adapter_kind \notin {"Groq", "Xai", "DeepSeek"}
     /\ ~IsSome(captured_data.usage)
     /\ options.capture_usage
    THEN Some(TakeUsage(data.usage))
    ELSE captured_data.usage

\* captured_data.usage after a first choice without finish_reason and delta:
\* tracing::warn!("EMPTY CHOICE CONTENT") and nothing else, the else branch that
\* captures usage is not entered.
EmptyChoiceUsage(data) == captured_data.usage

\* if let Ok(Some(first_choice)) = message_data.x_take("/choices/0") { .. }
InnerMessageChoice ==
  \E data \in inner.feed :
    /\ data.kind = "json"
    /\ IsSome(data.choice)
    /\ Poll(EventMessage(data))
    /\ LET first_choice == data.choice[1]
           branch == ChoiceBranch(first_choice)
       IN  CASE branch = "finish_reason" ->
                  /\ captured_data' = [captured_data EXCEPT !.usage = FinishReasonUsage(data)]
                  /\ Continue
                  /\ UNCHANGED partial_openai_tool_call
             [] branch = "content" ->
                  /\ captured_data' =
                       [captured_data EXCEPT !.content = CapturedContent(first_choice.content[1])]
                  /\ Return(InterStreamEventChunk(InterStreamChunkContent(first_choice.content[1])))
                  /\ UNCHANGED partial_openai_tool_call
             [] branch = "tool_call" ->
                  LET tool == DeserializeToolCall(first_choice.tool_call[1])[1]
                  IN  /\ partial_openai_tool_call' = PartialAfter(tool)
                      /\ captured_data' = [captured_data EXCEPT !.tools = ToolsAfter(tool)]
                      /\ Return(InterStreamEventChunk(InterStreamChunkFrom(tool)))
             [] branch = "reasoning_content" ->
                  /\ captured_data' =
                       [captured_data EXCEPT !.reasoning_content =
                          CapturedReasoningContent(first_choice.reasoning_content[1])]
                  /\ Return(InterStreamEventReasoningChunk(first_choice.reasoning_content[1]))
                  /\ UNCHANGED partial_openai_tool_call
             [] OTHER ->
                  /\ captured_data' = [captured_data EXCEPT !.usage = EmptyChoiceUsage(data)]
                  /\ Continue
                  /\ UNCHANGED partial_openai_tool_call
    /\ UNCHANGED <<inner, options, done>>

\* Mutant of UsageMessageUsage: `self.captured_data.usage.is_none()` is missing.
UsageMessageUsageOverwrite(data) ==
  IF /\ options.adapter_kind \notin {"Groq", "Xai", "DeepSeek"}
     /\ options.capture_usage
    THEN Some(TakeUsage(data.usage))
    ELSE captured_data.usage

\* captured_data.usage after a message without a first choice
UsageMessageUsage(data) ==
  IF /\ options.adapter_kind # "Groq"
     /\ options.adapter_kind # "Xai"
     /\ options.adapter_kind # "DeepSeek"
     /\ ~IsSome(captured_data.usage)
     /\ options.capture_usage
    THEN Some(TakeUsage(data.usage))
    ELSE captured_data.usage

\* else { .. }: the message has no first choice (absent or null)
InnerMessageUsage ==
  \E data \in inner.feed :
    /\ data.kind = "json"
    /\ ~IsSome(data.choice)
    /\ Poll(EventMessage(data))
    /\ captured_data' = [captured_data EXCEPT !.usage = UsageMessageUsage(data)]
    /\ Continue
    /\ UNCHANGED <<inner, options, done, partial_openai_tool_call>>

Next ==
  \/ PollNextDone
  \/ InnerPending
  \/ InnerOpen
  \/ InnerMessageDone
  \/ InnerMessageParseError
  \/ InnerMessageChoice
  \/ InnerMessageUsage
  \/ InnerErr
  \/ InnerNone

-----------------------------------------------------------------------------
\* The payloads of the model.

\* {"choices":[{"delta":{"content":c}}]}
ContentData(c) == JsonData(Some(Choice(None, Some(c), None, None)), None, None)

\* {"choices":[{"delta":{"reasoning_content":c}}]}
ReasoningData(c) == JsonData(Some(Choice(None, None, None, Some(c))), None, None)

\* {"choices":[{"delta":{"tool_calls":[{"index":i, ..}]}}]}
ToolData(index, id, name, arguments) ==
  JsonData(Some(Choice(None, None, Some(ToolJson(index, id, name, arguments)), None)),
           None, None)

\* {"choices":[{"delta":{},"finish_reason":"stop"}],"usage":u,"x_groq":{"usage":g}}
FinishData(usage, x_groq_usage) ==
  JsonData(Some(Choice(Some(<<"s">>), None, None, None)), usage, x_groq_usage)

\* {"choices":[],"usage":u}
UsageData(usage) == JsonData(None, usage, None)

\* {"choices":[{"delta":{}}],"usage":u}
EmptyChoiceData(usage) == JsonData(Some(Choice(None, None, None, None)), usage, None)

\* A stream that has every kind of message.
MixedFeed ==
  { DoneData, MalformedData,
    ContentData(<<"a">>),
    ReasoningData(<<"r">>),
    ToolData(Some(0), Some(<<"c">>), Some(<<"f">>), Some(<<"{">>)),
    ToolData(Some(1), None, None, Some(<<"1">>)),
    FinishData(Some(1), Some(2)),
    UsageData(Some(3)) }

\* A stream of tool call fragments, with a content delta in between.
ToolFeed ==
  { DoneData, MalformedData,
    ToolData(Some(0), Some(<<"c">>), Some(<<"f">>), None),
    ToolData(Some(0), None, None, Some(<<"{">>)),
    ToolData(Some(0), None, None, Some(<<"}">>)),
    ToolData(Some(1), Some(<<"d">>), Some(<<"g">>), Some(<<"1">>)),
    ContentData(<<"a">>),
    UsageData(Some(3)) }

\* ChatOptionsSet / ModelIden as StreamerOptions::new reads them
StreamerOptions(content, reasoning_content, usage, tools, adapter_kind) ==
  [capture_content |-> content, capture_reasoning_content |-> reasoning_content,
   capture_usage |-> usage, capture_tools |-> tools, adapter_kind |-> adapter_kind]

AllOptions ==
  { StreamerOptions(c, r, u, t, k) : c \in BOOLEAN, r \in BOOLEAN, u \in BOOLEAN,
                                     t \in BOOLEAN, k \in AdapterKinds }

ToolOptions == { StreamerOptions(FALSE, FALSE, FALSE, t, "OpenAI") : t \in BOOLEAN }

\* OpenAIStreamer::new
New(feed, limit, options_set) ==
  /\ inner = [feed |-> feed, limit |-> limit]
  /\ options \in options_set
  /\ done = FALSE
  /\ captured_data = DefaultCapturedData
  /\ partial_openai_tool_call = None
  /\ pc = "idle"
  /\ returned = [poll |-> "Unpolled", item |-> None]
  /\ polled = <<>>
  /\ emitted = <<>>
  /\ chat_returned = [poll |-> "Unpolled", item |-> None]
  /\ chat_emitted = <<>>

\* Any provider, any capture configuration, a stream with every kind of message.
Init == New(MixedFeed, MaxPolls, AllOptions)

Spec == Init /\ [][Next]_vars

\* A longer stream of tool call fragments.
InitTools == New(ToolFeed, MaxToolPolls, ToolOptions)

SpecTools == InitTools /\ [][Next]_vars

-----------------------------------------------------------------------------
\* Reading the two histories.

Last(seq) == seq[Len(seq)]

\* The positions of polled that hold the message "[DONE]"
DonePositions == { i \in 1..Len(polled) : polled[i] = EventMessage(DoneData) }

\* The positions of emitted that hold an End event
EndPositions == { i \in 1..Len(emitted) : emitted[i].item.tag = "End" }

\* An item without the payload of End
Shape(item) == IF item.tag = "End" THEN [tag |-> "End"] ELSE item

\* What a result of the source makes poll_next return, as Shape gives it: None when
\* the result makes poll_next return no item.
Emits(result) ==
  CASE result.type = "Open" -> Some(InterStreamEventStart)
    [] result.type = "Err" -> Some(ErrReqwestEventSource)
    [] result.type = "Message" /\ result.data.kind = "[DONE]" -> Some([tag |-> "End"])
    [] result.type = "Message" /\ result.data.kind = "malformed" -> Some(ErrStreamParse)
    [] result.type = "Message" /\ result.data.kind = "json" ->
         IF ~IsSome(result.data.choice) THEN None
         ELSE LET c == result.data.choice[1] IN
              CASE ChoiceBranch(c) = "content" ->
                     Some(InterStreamEventChunk(InterStreamChunkContent(c.content[1])))
                [] ChoiceBranch(c) = "tool_call" ->
                     Some(InterStreamEventChunk(
                            InterStreamChunkFrom(DeserializeToolCall(c.tool_call[1])[1])))
                [] ChoiceBranch(c) = "reasoning_content" ->
                     Some(InterStreamEventReasoningChunk(c.reasoning_content[1]))
                [] OTHER -> None
    [] OTHER -> None

\* A result of the source that poll_next decodes as a tool call fragment
IsToolMessage(result) ==
  /\ result.type = "Message"
  /\ result.data.kind = "json"
  /\ IsSome(result.data.choice)
  /\ ChoiceBranch(result.data.choice[1]) = "tool_call"

\* The tool call fragments received so far, as they were on the wire
ToolFragments ==
  LET messages == SelectSeq(polled, IsToolMessage)
  IN  [i \in 1..Len(messages) |-> messages[i].data.choice[1].tool_call[1]]

\* The fragments cut into runs: a run is a longest stretch of consecutive
\* fragments with one index.
RECURSIVE RunsOf(_)
RunsOf(fragments) ==
  IF fragments = <<>> THEN <<>>
  ELSE LET before == RunsOf(SubSeq(fragments, 1, Len(fragments) - 1))
           f == Last(fragments)
       IN  IF before # <<>> /\ Last(Last(before)).index = f.index
             THEN [before EXCEPT ![Len(before)] = Append(@, f)]
             ELSE Append(before, <<f>>)

\* The text of one key of a fragment: nothing when the key is absent
TextOf(key) == IF key = None THEN <<>> ELSE key[1]

\* The texts of one key of the fragments of a run, one after the other
RECURSIVE ConcatOf(_, _)
ConcatOf(run, key) ==
  IF run = <<>> THEN <<>> ELSE TextOf(Head(run)[key]) \o ConcatOf(Tail(run), key)

\* The runs whose call was finalized: all of them once "[DONE]" flushed the last
\* one, all but the last one before.
FinalizedRuns(runs) ==
  IF done THEN runs
  ELSE IF runs = <<>> THEN <<>> ELSE SubSeq(runs, 1, Len(runs) - 1)

\* The call indices of the fragments received so far
FragmentIndices == { ToolFragments[i].index[1] : i \in 1..Len(ToolFragments) }

\* The fragments of each call arrived together: no index comes back after another one.
IndicesGrouped ==
  \A i, j, k \in 1..Len(ToolFragments) :
    (i < j /\ j < k /\ ToolFragments[i].index = ToolFragments[k].index)
      => ToolFragments[j].index = ToolFragments[i].index

\* The stream so far is tool call fragments, and "[DONE]" after them when it is done.
OnlyFragmentsThenDone ==
  \A i \in 1..Len(polled) :
    \/ IsToolMessage(polled[i])
    \/ i = Len(polled) /\ polled[i] = EventMessage(DoneData)

\* The End event, once it was emitted
EndEvent == Last(emitted).item.end

\* A result of the source that poll_next decodes as the given branch of a first choice
IsChoiceMessage(result, branch) ==
  /\ result.type = "Message"
  /\ result.data.kind = "json"
  /\ IsSome(result.data.choice)
  /\ ChoiceBranch(result.data.choice[1]) = branch

\* A result of the source that is a JSON message without a first choice
IsUsageMessage(result) ==
  /\ result.type = "Message"
  /\ result.data.kind = "json"
  /\ ~IsSome(result.data.choice)

\* A usage-bearing payload: a message without a first choice that has a usage key
BearsUsage(result) ==
  /\ IsUsageMessage(result)
  /\ IsSome(result.data.usage)

\* A message at the place the adapter kind reads usage from: a message with a
\* finish_reason for Groq, xAI and DeepSeek, a message without a first choice otherwise
IsUsagePlace(result) ==
  IF options.adapter_kind \in {"Groq", "Xai", "DeepSeek"}
    THEN IsChoiceMessage(result, "finish_reason")
    ELSE IsUsageMessage(result)

\* A result of the source that makes poll_next return an item
IsEmitting(result) == Emits(result) # None

-----------------------------------------------------------------------------
\* C1: once "[DONE]" was received the streamer is terminal: done is set by the step
\* that receives "[DONE]" and by no other, it is never reset, that step emits one End
\* event and no other End event is ever emitted, and every step after it is a
\* poll_next that returns Ready(None), polls the source no more and emits nothing.
C1_DoneIsTerminal ==
  /\ [](/\ done <=> Cardinality(DonePositions) = 1
        /\ ~done <=> Cardinality(DonePositions) = 0
        /\ Cardinality(EndPositions) = Cardinality(DonePositions))
  /\ [][/\ (~done /\ done') =>
             /\ Last(polled') = EventMessage(DoneData)
             /\ Len(polled') = Len(polled) + 1
             /\ Len(emitted') = Len(emitted) + 1
             /\ Last(emitted').item.tag = "End"
        /\ done =>
             /\ done'
             /\ polled' = polled
             /\ emitted' = emitted
             /\ returned' = PollReady(None)]_vars

\* C1 witness: "[DONE]" was received and a later poll_next returned Ready(None)
C1_Witness ==
  /\ done
  /\ returned = PollReady(None)
  /\ Len(polled) < inner.limit

\* C2: every item emitted is the one the source result at its position produces,
\* the positions increase along the emitted items, and an End event is the last
\* item: nothing is emitted after it.
C2_OrderedEndLast ==
  \A i \in 1..Len(emitted) :
    /\ emitted[i].at \in 1..Len(polled)
    /\ Emits(polled[emitted[i].at]) = Some(Shape(emitted[i].item))
    /\ i > 1 => emitted[i - 1].at < emitted[i].at
    /\ emitted[i].item.tag = "End" => i = Len(emitted)

\* C2 witness: a chunk, then a message that emits nothing, then End
C2_Witness ==
  /\ Len(emitted) = 2
  /\ emitted[1].item.tag = "Chunk"
  /\ emitted[1].at = 1
  /\ emitted[2].item.tag = "End"
  /\ emitted[2].at = 3

\* C3: the held partial call has the index of the current run of fragments and, as
\* id, name and argument text, the texts of that key of the run's fragments one
\* after the other in arrival order, an absent key counting as the empty text; and
\* with tools captured, each finalized call has the id and name so assembled and the
\* arguments parsed from the assembled argument text (the default value when that
\* text is no JSON).
C3_FragmentsConcatenated ==
  LET runs == RunsOf(ToolFragments)
      final == FinalizedRuns(runs)
  IN  /\ (runs # <<>> /\ ~(done /\ options.capture_tools)) =>
            /\ IsSome(partial_openai_tool_call)
            /\ partial_openai_tool_call[1].index = Last(runs)[1].index[1]
            /\ partial_openai_tool_call[1].id = ConcatOf(Last(runs), "id")
            /\ partial_openai_tool_call[1].function.name = ConcatOf(Last(runs), "name")
            /\ partial_openai_tool_call[1].function.arguments = ConcatOf(Last(runs), "arguments")
      /\ options.capture_tools =>
            /\ Len(captured_data.tools) = Len(final)
            /\ \A k \in 1..Len(final) :
                 /\ captured_data.tools[k].call_id = ConcatOf(final[k], "id")
                 /\ captured_data.tools[k].fn_name = ConcatOf(final[k], "name")
                 /\ captured_data.tools[k].fn_arguments =
                      IF JsonFromStr(ConcatOf(final[k], "arguments")) = None
                        THEN JsonNull
                        ELSE JsonFromStr(ConcatOf(final[k], "arguments"))[1]

\* C3 witness: three fragments of call 0 (id and name without arguments, then the
\* argument text in two pieces) were assembled and finalized at "[DONE]"
C3_Witness ==
  /\ done
  /\ Len(ToolFragments) = 3
  /\ Len(RunsOf(ToolFragments)) = 1
  /\ Len(captured_data.tools) = 1
  /\ captured_data.tools[1] =
       [call_id |-> <<"c">>, fn_name |-> <<"f">>, fn_arguments |-> [json |-> "Object"]]

\* C4 as claimed: with tools captured, after any sequence of tool call fragments
\* ended by "[DONE]", End.captured_tools has as many calls as there are distinct call
\* indices among the fragments.
C4_AsClaimed ==
  (options.capture_tools /\ done /\ OnlyFragmentsThenDone) =>
    Len(EndEvent.captured_tools) = Cardinality(FragmentIndices)

\* C4, amended: with tools captured, a fragment whose index differs from the held
\* call's pushes exactly that held call to the finalized calls and becomes the held
\* call; and End.captured_tools has as many calls as the fragments have runs of one
\* index, which is the number of distinct indices when no index comes back after
\* another one.
C4_OneCallPerRun ==
  /\ [][\A result \in {Last(polled')} :
          (/\ options.capture_tools
           /\ Len(polled') = Len(polled) + 1
           /\ IsToolMessage(result)
           /\ IsSome(partial_openai_tool_call)
           /\ result.data.choice[1].tool_call[1].index[1] # partial_openai_tool_call[1].index)
          => /\ captured_data'.tools =
                  Append(captured_data.tools, ToolCallFrom(partial_openai_tool_call[1]))
             /\ IsSome(partial_openai_tool_call')
             /\ partial_openai_tool_call'[1].index = result.data.choice[1].tool_call[1].index[1]
             /\ partial_openai_tool_call'[1].function.arguments =
                  TextOf(result.data.choice[1].tool_call[1].arguments)]_vars
  /\ []((options.capture_tools /\ done) =>
          /\ Len(EndEvent.captured_tools) = Len(RunsOf(ToolFragments))
          /\ IndicesGrouped => Len(EndEvent.captured_tools) = Cardinality(FragmentIndices))

\* C4 witness: fragments of call 0, of call 1 and of call 0 again, then "[DONE]":
\* three finalized calls for two distinct indices
C4_Witness ==
  /\ options.capture_tools
  /\ done
  /\ OnlyFragmentsThenDone
  /\ Len(ToolFragments) = 3
  /\ Cardinality(FragmentIndices) = 2
  /\ Len(EndEvent.captured_tools) = 3

\* C5 as claimed: under every capture configuration, the step that receives "[DONE]"
\* while a partial tool call is held pushes that call, finalized, as one more call of
\* End.captured_tools and leaves no call held; afterwards nothing is flushed again.
C5_AsClaimed ==
  [][/\ (~done /\ done' /\ IsSome(partial_openai_tool_call)) =>
          /\ EndEvent'.captured_tools =
               Append(captured_data.tools, ToolCallFrom(partial_openai_tool_call[1]))
          /\ partial_openai_tool_call' = None
     /\ done => UNCHANGED <<captured_data, partial_openai_tool_call>>]_vars

\* C5, amended: with tools captured, the step that receives "[DONE]" while a partial
\* tool call is held pushes that call, finalized, as one more call of
\* End.captured_tools and leaves no call held; with tools not captured it pushes
\* nothing and the call stays held; afterwards nothing is flushed again.
C5_FlushedOnceWhenCaptured ==
  [][/\ (~done /\ done' /\ IsSome(partial_openai_tool_call)) =>
          IF options.capture_tools
            THEN /\ EndEvent'.captured_tools =
                      Append(captured_data.tools, ToolCallFrom(partial_openai_tool_call[1]))
                 /\ captured_data'.tools = EndEvent'.captured_tools
                 /\ partial_openai_tool_call' = None
            ELSE /\ EndEvent'.captured_tools = <<>>
                 /\ partial_openai_tool_call' = partial_openai_tool_call
     /\ done => UNCHANGED <<captured_data, partial_openai_tool_call>>]_vars

\* C5 witness: one call was held at "[DONE]", it is the one call of End, no call
\* is held, and poll_next was called again
C5_Witness ==
  /\ options.capture_tools
  /\ done
  /\ Len(RunsOf(ToolFragments)) = 1
  /\ Len(EndEvent.captured_tools) = 1
  /\ partial_openai_tool_call = None
  /\ returned = PollReady(None)

\* C6: a field of End whose capture flag is off is None (an empty list for the
\* tools), whatever was received and emitted.
C6_DisabledIsEmpty ==
  done =>
    /\ ~options.capture_content => EndEvent.captured_content = None
    /\ ~options.capture_reasoning_content => EndEvent.captured_reasoning_content = None
    /\ ~options.capture_usage => EndEvent.captured_usage = None
    /\ ~options.capture_tools => EndEvent.captured_tools = <<>>

\* C6 witness: no flag is on, a content chunk and a tool chunk were emitted, and
\* End is empty
C6_Witness ==
  /\ done
  /\ ~options.capture_content
  /\ ~options.capture_reasoning_content
  /\ ~options.capture_usage
  /\ ~options.capture_tools
  /\ Len(emitted) = 3
  /\ emitted[1].item = InterStreamEventChunk(InterStreamChunkContent(<<"a">>))
  /\ emitted[2].item.tag = "Chunk"
  /\ emitted[2].item.chunk.kind = "Tool"
  /\ EndEvent = [captured_usage |-> None, captured_content |-> None,
                 captured_reasoning_content |-> None, captured_tools |-> <<>>]

C8_EventsIgnoreCapture ==
  LET emitting == SelectSeq(polled, IsEmitting)
  IN  /\ Len(emitted) = Len(emitting)
      /\ \A i \in 1..Len(emitted) : Shape(emitted[i].item) = Emits(emitting[i])[1]

\* C8 witness: content is captured and reasoning is not; both chunks were emitted
C8_Witness ==
  /\ done
  /\ options.capture_content
  /\ ~options.capture_reasoning_content
  /\ Len(emitted) = 3
  /\ emitted[1].item = InterStreamEventChunk(InterStreamChunkContent(<<"a">>))
  /\ emitted[2].item = InterStreamEventReasoningChunk(<<"r">>)
  /\ EndEvent.captured_content = Some(<<"a">>)
  /\ EndEvent.captured_reasoning_content = None

\* The message that is no JSON was received
ParseFailed == \E i \in 1..Len(polled) : polled[i] = EventMessage(MalformedData)

\* The source has yielded an error
SourceFailed == \E i \in 1..Len(polled) : polled[i] = SourceErr

\* C9 as claimed: the step that receives a message that is no JSON emits the
\* StreamParse error and nothing else and leaves the captured data and the held
\* tool call as they were; after it the source is polled no more and nothing is
\* emitted.
C9_AsClaimed ==
  [][/\ (Len(polled') = Len(polled) + 1 /\ Last(polled') = EventMessage(MalformedData)) =>
          /\ emitted' = Append(emitted, [item |-> ErrStreamParse, at |-> Len(polled')])
          /\ UNCHANGED <<captured_data, partial_openai_tool_call>>
     /\ ParseFailed => UNCHANGED <<polled, emitted>>]_vars

\* C10 as claimed: the step in which the source yields an error emits the
\* ReqwestEventSource error; after it the source is polled no more and nothing is
\* emitted.
C10_AsClaimed ==
  [][/\ (Len(polled') = Len(polled) + 1 /\ Last(polled') = SourceErr) =>
          emitted' = Append(emitted, [item |-> ErrReqwestEventSource, at |-> Len(polled')])
     /\ SourceFailed => UNCHANGED <<polled, emitted>>]_vars

-----------------------------------------------------------------------------
\* The positions of emitted that hold an error
ErrPositions == { i \in 1..Len(emitted) : emitted[i].item.tag = "Err" }

\* C11 as claimed: no event is emitted after an error, and whenever poll_next has
\* returned end-of-feed the emitted sequence is not empty and ends with the End
\* event or with the one error of the stream.
C11_AsClaimed ==
  /\ \A i \in ErrPositions : i = Len(emitted)
  /\ returned = PollReady(None) =>
       /\ emitted # <<>>
       /\ Last(emitted).item.tag \in {"End", "Err"}
       /\ Cardinality(ErrPositions) <= 1

-----------------------------------------------------------------------------
\* A stream of content deltas with one usage message, long enough for Open, two
\* deltas, the usage message and "[DONE]".
MaxContentPolls == 5

ContentFeed ==
  { DoneData, MalformedData,
    ContentData(<<"a">>),
    ContentData(<<"b">>),
    UsageData(Some(5)) }

\* The base dialect with content and usage captured
ContentOptions == { StreamerOptions(TRUE, FALSE, TRUE, FALSE, "OpenAI") }

InitContent == New(ContentFeed, MaxContentPolls, ContentOptions)

SpecContent == InitContent /\ [][Next]_vars

\* The source has yielded Open, one or more content deltas, one message without a
\* first choice that has a usage key, and "[DONE]", and nothing else.
ContentScenario ==
  /\ Len(polled) >= 4
  /\ polled[1] = EventOpen
  /\ \A i \in 2..(Len(polled) - 2) : IsChoiceMessage(polled[i], "content")
  /\ BearsUsage(polled[Len(polled) - 1])
  /\ Last(polled) = EventMessage(DoneData)

\* The texts of the content deltas of the scenario, d1..dn
ContentDeltas ==
  [i \in 1..(Len(polled) - 3) |-> polled[i + 1].data.choice[1].content[1]]

\* The texts one after the other
RECURSIVE ConcatTexts(_)
ConcatTexts(texts) ==
  IF texts = <<>> THEN <<>> ELSE Head(texts) \o ConcatTexts(Tail(texts))

\* C12: for the base dialect with content and usage captured, the input Open,
\* d1..dn, one usage message, "[DONE]" makes poll_next return exactly Start, one
\* content Chunk per delta with the text of that delta, and End, whose
\* captured_content is d1..dn one after the other and whose captured_usage is the
\* usage of the usage message; the usage message makes it return nothing.
C12_ContentThenUsage ==
  ContentScenario =>
    LET n == Len(ContentDeltas) IN
    /\ Len(emitted) = n + 2
    /\ emitted[1] = [item |-> InterStreamEventStart, at |-> 1]
    /\ \A i \in 1..n :
         emitted[i + 1] =
           [item |-> InterStreamEventChunk(InterStreamChunkContent(ContentDeltas[i])),
            at |-> i + 1]
    /\ emitted[n + 2] =
         [item |-> InterStreamEventEnd(
                     [captured_usage |->
                        Some(IntoUsage(polled[Len(polled) - 1].data.usage[1])),
                      captured_content |-> Some(ConcatTexts(ContentDeltas)),
                      captured_reasoning_content |-> None,
                      captured_tools |-> <<>>]),
          at |-> n + 3]

\* Open, two different deltas, the usage message and "[DONE]" were received and End
\* was returned.
C12_Witness ==
  /\ ContentScenario
  /\ Len(polled) = 5
  /\ polled[2] # polled[3]
  /\ pc = "idle"
  /\ returned.item # None
  /\ returned.item[1].tag = "End"

-----------------------------------------------------------------------------
\* A stream of the fragments of two tool calls: the first call comes in two
\* fragments, its id and name first and its arguments after.
CallFeed ==
  { DoneData, MalformedData,
    ToolData(Some(0), Some(<<"c">>), Some(<<"f">>), Some(EmptyString)),
    ToolData(Some(0), None, None, Some(<<"{", "}">>)),
    ToolData(Some(1), Some(<<"d">>), Some(<<"g">>), Some(<<"1">>)),
    UsageData(Some(3)) }

InitCalls == New(CallFeed, MaxToolPolls, ToolOptions)

SpecCalls == InitCalls /\ [][Next]_vars

\* The source has yielded a fragment with index 0 that has an id, a name and empty
\* arguments, a fragment with index 0 that has arguments only, a fragment with
\* index 1, and "[DONE]", and nothing else.
CallScenario ==
  /\ Len(polled) = 4
  /\ \A i \in 1..3 : IsToolMessage(polled[i])
  /\ LET first == ToolFragments[1]
         second == ToolFragments[2]
         third == ToolFragments[3]
     IN  /\ first.index = Some(0) /\ IsSome(first.id) /\ IsSome(first.name)
         /\ TextOf(first.arguments) = EmptyString
         /\ second.index = Some(0) /\ second.id = None /\ second.name = None
         /\ IsSome(second.arguments)
         /\ third.index = Some(1)
  /\ polled[4] = EventMessage(DoneData)

\* The tool Chunk of a fragment: its index and its own id, name and arguments
FragmentChunk(fragment) ==
  InterStreamEventChunk(
    [kind |-> "Tool", index |-> fragment.index[1],
     tool |-> [id |-> TextOf(fragment.id), name |-> TextOf(fragment.name),
               arguments |-> TextOf(fragment.arguments)]])

\* The JSON value of the arguments text of a finalized call: null when the text
\* is no JSON
ArgumentsValue(text) ==
  IF IsSome(JsonFromStr(text)) THEN JsonFromStr(text)[1] ELSE JsonNull

\* C13: with tools captured, a fragment with index 0 carrying an id, a name and
\* empty arguments, a fragment with index 0 carrying arguments only, a fragment
\* with index 1 and "[DONE]" make poll_next return three tool Chunks, one per
\* fragment, and then End, whose captured_tools has exactly two calls in the order
\* of the indices: the first has the id and the name of the first fragment and the
\* arguments of the two fragments with index 0 one after the other, the second is
\* the call of the third fragment.
C13_TwoCallsAssembled ==
  (options.capture_tools /\ CallScenario) =>
    /\ Len(emitted) = 4
    /\ \A i \in 1..3 : emitted[i] = [item |-> FragmentChunk(ToolFragments[i]), at |-> i]
    /\ emitted[4].at = 4
    /\ emitted[4].item.tag = "End"
    /\ EndEvent.captured_tools =
         << [call_id |-> ToolFragments[1].id[1],
             fn_name |-> ToolFragments[1].name[1],
             fn_arguments |->
               ArgumentsValue(TextOf(ToolFragments[1].arguments)
                                \o ToolFragments[2].arguments[1])],
            [call_id |-> TextOf(ToolFragments[3].id),
             fn_name |-> TextOf(ToolFragments[3].name),
             fn_arguments |-> ArgumentsValue(TextOf(ToolFragments[3].arguments))] >>

\* The scenario was received with tools captured: the first call has the
\* arguments {} of the second fragment.
C13_Witness ==
  /\ options.capture_tools
  /\ CallScenario
  /\ done
  /\ EndEvent.captured_tools[1] =
       [call_id |-> <<"c">>, fn_name |-> <<"f">>, fn_arguments |-> [json |-> "Object"]]
  /\ EndEvent.captured_tools[2] =
       [call_id |-> <<"d">>, fn_name |-> <<"g">>,
        fn_arguments |-> [json |-> "Number", digits |-> 1]]

-----------------------------------------------------------------------------
\* The public item is of the kind of the intermediate item and has its payload
SameItem(inter, public) ==
  /\ public.tag = inter.tag
  /\ CASE inter.tag = "Start" -> public = [tag |-> "Start"]
       [] inter.tag = "Err" -> public.error = inter.error
       [] inter.tag = "ReasoningChunk" -> public.chunk.text = inter.chunk.text
       [] inter.tag = "Chunk" ->
            /\ public.chunk.kind = inter.chunk.kind
            /\ IF inter.chunk.kind = "Content"
                 THEN public.chunk.text = inter.chunk.text
                 ELSE /\ public.chunk.index = inter.chunk.index
                      /\ public.chunk.tool.id = inter.chunk.tool.id
                      /\ public.chunk.tool.name = inter.chunk.tool.name
                      /\ public.chunk.tool.arguments = inter.chunk.tool.arguments
       [] inter.tag = "End" ->
            /\ public.end.captured_usage = inter.end.captured_usage
            /\ public.end.captured_reasoning_content = inter.end.captured_reasoning_content
            /\ public.end.captured_tools = inter.end.captured_tools
            /\ IsSome(public.end.captured_content) <=> IsSome(inter.end.captured_content)
            /\ IsSome(inter.end.captured_content) =>
                 public.end.captured_content[1].text = inter.end.captured_content[1]

\* C14: ChatStream relays the streamer one to one: the items it has returned are,
\* in number and in order, the items the streamer has returned, each of the same
\* kind with the same payload, and what its last poll_next returned is Pending,
\* end-of-feed or an item as the streamer's was, the item being the last relayed.
C14_RelayedOneToOne ==
  /\ Len(chat_emitted) = Len(emitted)
  /\ \A i \in 1..Len(emitted) : SameItem(emitted[i].item, chat_emitted[i])
  /\ chat_returned.poll = returned.poll
  /\ (chat_returned.item = None) <=> (returned.item = None)
  /\ returned.item # None =>
       /\ chat_returned.item[1] = Last(chat_emitted)
       /\ returned.item[1] = Last(emitted).item

\* A content chunk, a tool chunk and End with the captured content and a
\* captured call were relayed.
C14_Witness ==
  /\ done
  /\ Len(chat_emitted) = 3
  /\ \E i, j \in 1..2 :
       /\ chat_emitted[i].tag = "Chunk" /\ chat_emitted[i].chunk.kind = "Tool"
       /\ chat_emitted[i].chunk.tool.id = <<"c">>
       /\ chat_emitted[j] = [tag |-> "Chunk", chunk |-> [kind |-> "Content", text |-> <<"a">>]]
  /\ chat_emitted[3].tag = "End"
  /\ chat_emitted[3].end.captured_content = Some([kind |-> "Text", text |-> <<"a">>])
  /\ Len(chat_emitted[3].end.captured_tools) = 1
  /\ chat_returned = PollReady(Some(chat_emitted[3]))

-----------------------------------------------------------------------------
\* C15 as claimed: once End was emitted the streamer holds default state under
\* every capture configuration: no content, no reasoning content, no usage, an
\* empty list of tool calls and no partial tool call.
C15_AsClaimed ==
  done =>
    /\ captured_data = DefaultCapturedData
    /\ partial_openai_tool_call = None

\* C15, amended: once End was emitted the content, the reasoning content and the
\* usage of the streamer are None under every capture configuration; the list of
\* tool calls is copied, not moved: the streamer keeps the calls End carries; and
\* the partial tool call is released when tools are captured and stays held when
\* they are not.
C15_MovedButTools ==
  done =>
    /\ captured_data.content = None
    /\ captured_data.reasoning_content = None
    /\ captured_data.usage = None
    /\ captured_data.tools = EndEvent.captured_tools
    /\ IF options.capture_tools
         THEN partial_openai_tool_call = None
         ELSE /\ captured_data.tools = <<>>
              /\ IsSome(partial_openai_tool_call) <=>
                   \E i \in 1..Len(polled) : IsToolMessage(polled[i])

\* Content and a tool call were captured and End carries them: the streamer has
\* no content left and still has the call.
C15_Witness ==
  /\ done
  /\ options.capture_content /\ options.capture_tools
  /\ EndEvent.captured_content = Some(<<"a">>)
  /\ Len(EndEvent.captured_tools) = 1
  /\ captured_data.content = None
  /\ Len(captured_data.tools) = 1
  /\ partial_openai_tool_call = None

-----------------------------------------------------------------------------
\* A stream of the messages usage is read from or not: messages with a
\* finish_reason, messages without a first choice, a first choice with nothing in it.
UsageFeed ==
  { DoneData, MalformedData,
    FinishData(Some(1), Some(2)),
    FinishData(None, None),
    UsageData(Some(3)),
    UsageData(Some(4)),
    EmptyChoiceData(Some(5)),
    ContentData(<<"a">>) }

\* Every adapter kind, usage captured or not
UsageOptions ==
  { StreamerOptions(FALSE, FALSE, u, FALSE, k) : u \in BOOLEAN, k \in AdapterKinds }

InitUsage == New(UsageFeed, MaxPolls, UsageOptions)

SpecUsage == InitUsage /\ [][Next]_vars

\* The step polls the source
Polls == Len(polled') = Len(polled) + 1

\* C16: where usage is captured depends on the adapter kind alone. A message with
\* a finish_reason writes the usage of the streamer from /x_groq/usage for Groq and
\* from usage for xAI and DeepSeek, when usage is captured, and never for the base
\* dialect; it emits nothing and the loop goes on. A message without a first choice
\* never writes it for Groq, xAI and DeepSeek, and for the base dialect writes it
\* from usage when usage is captured and none is held. No other message writes it: before "[DONE]" the usage
\* of the streamer changes only in a step that receives a message at the place of
\* the adapter kind.
C16_UsageByKind ==
  [][Polls =>
       LET r == Last(polled') IN
       /\ IsChoiceMessage(r, "finish_reason") =>
            /\ emitted' = emitted
            /\ pc' = "loop"
            /\ captured_data'.usage =
                 IF options.capture_usage /\ options.adapter_kind = "Groq"
                   THEN Some(TakeUsage(r.data.x_groq_usage))
                 ELSE IF options.capture_usage /\ options.adapter_kind \in {"Xai", "DeepSeek"}
                   THEN Some(TakeUsage(r.data.usage))
                 ELSE captured_data.usage
       /\ IsUsageMessage(r) =>
            IF options.adapter_kind \in {"Groq", "Xai", "DeepSeek"}
              THEN captured_data'.usage = captured_data.usage
              ELSE captured_data'.usage =
                     IF options.capture_usage /\ captured_data.usage = None
                       THEN Some(TakeUsage(r.data.usage))
                       ELSE captured_data.usage
       /\ (~done' /\ captured_data'.usage # captured_data.usage) => IsUsagePlace(r)]_vars

\* Groq with usage captured: a message with a finish_reason was received, the
\* usage is the one under /x_groq/usage, nothing was emitted and the call goes on.
C16_Witness ==
  /\ options.adapter_kind = "Groq"
  /\ options.capture_usage
  /\ polled = <<EventMessage(FinishData(Some(1), Some(2)))>>
  /\ captured_data.usage = Some(IntoUsage(2))
  /\ emitted = <<>>
  /\ pc = "loop"

-----------------------------------------------------------------------------
\* The positions of polled that hold a message without a first choice
UsageMessagePositions == { i \in 1..Len(polled) : IsUsageMessage(polled[i]) }

\* The first of a non-empty set of positions
First(positions) == CHOOSE i \in positions : \A j \in positions : i <= j

\* C17 as claimed: for every adapter kind, once the streamer holds a usage no
\* later message replaces it before "[DONE]" takes it.
C17_AsClaimed ==
  [][(IsSome(captured_data.usage) /\ ~done') =>
       captured_data'.usage = captured_data.usage]_vars

\* C17, amended: usage capture is first-write-wins for the base dialect only: once
\* the streamer holds a usage no later message replaces it, and the usage of End is
\* the usage of the first message without a first choice. For Groq, xAI and
\* DeepSeek every message with a finish_reason replaces the usage held with its
\* own, and no other message does.
C17_FirstWriteWinsBaseOnly ==
  /\ [][(IsSome(captured_data.usage) /\ ~done' /\ Polls) =>
          LET r == Last(polled') IN
          captured_data'.usage =
            IF IsChoiceMessage(r, "finish_reason") /\ options.adapter_kind = "Groq"
              THEN Some(TakeUsage(r.data.x_groq_usage))
            ELSE IF IsChoiceMessage(r, "finish_reason")
                    /\ options.adapter_kind \in {"Xai", "DeepSeek"}
              THEN Some(TakeUsage(r.data.usage))
            ELSE captured_data.usage]_vars
  /\ [](( /\ done
          /\ options.capture_usage
          /\ options.adapter_kind \notin {"Groq", "Xai", "DeepSeek"}
          /\ UsageMessagePositions # {} ) =>
          EndEvent.captured_usage =
            Some(TakeUsage(polled[First(UsageMessagePositions)].data.usage)))

\* The base dialect with usage captured: two messages without a first choice with
\* different usages were received, and End has the usage of the first.
C17_Witness ==
  /\ options.adapter_kind = "OpenAI"
  /\ options.capture_usage
  /\ polled = << EventMessage(UsageData(Some(3))), EventMessage(UsageData(Some(4))),
                 EventMessage(DoneData) >>
  /\ EndEvent.captured_usage = Some(IntoUsage(3))

-----------------------------------------------------------------------------
\* C18 as claimed: a message with a first choice that has no finish_reason and no
\* content, tool call or reasoning delta emits nothing, the loop goes on, and for
\* the base dialect with usage captured and none held its usage is stored.
C18_AsClaimed ==
  [][(Polls /\ IsChoiceMessage(Last(polled'), "empty")) =>
       /\ emitted' = emitted
       /\ pc' = "loop"
       /\ ( /\ options.adapter_kind \notin {"Groq", "Xai", "DeepSeek"}
            /\ options.capture_usage
            /\ captured_data.usage = None ) =>
            captured_data'.usage = Some(TakeUsage(Last(polled').data.usage))]_vars

\* C18, amended: a message with a first choice that has no finish_reason and no
\* content, tool call or reasoning delta is dropped: it emits nothing, the loop
\* goes on, and it stores nothing, its usage neither, for every adapter kind and
\* capture configuration.
C18_EmptyChoiceDropped ==
  [][(Polls /\ IsChoiceMessage(Last(polled'), "empty")) =>
       /\ emitted' = emitted
       /\ pc' = "loop"
       /\ UNCHANGED <<captured_data, partial_openai_tool_call, done>>]_vars

\* The base dialect with usage captured: the message with the empty first choice
\* and the usage 5 was received when no usage was held, and none is held after it.
C18_Witness ==
  /\ options.adapter_kind = "OpenAI"
  /\ options.capture_usage
  /\ polled = <<EventMessage(EmptyChoiceData(Some(5)))>>
  /\ captured_data.usage = None
  /\ emitted = <<>>
  /\ pc = "loop"

-----------------------------------------------------------------------------
\* The source has ended and no "[DONE]" was received
SourceExhausted ==
  /\ polled # <<>>
  /\ Last(polled) = SourceNone
  /\ DonePositions = {}

\* C19: the step in which the source yields None before any "[DONE]" returns
\* end-of-feed: it emits nothing, no error and no End, and leaves what the streamer
\* has captured, the partial tool call and done as they were, whatever they hold;
\* and while the source stays exhausted no End was emitted and none is: what was
\* captured is not delivered.
C19_ExhaustedEndsSilently ==
  /\ [][(Polls /\ Last(polled') = SourceNone) =>
          /\ returned' = PollReady(None)
          /\ chat_returned' = PollReady(None)
          /\ pc' = "idle"
          /\ emitted' = emitted
          /\ UNCHANGED <<captured_data, partial_openai_tool_call, done>>]_vars
  /\ [][(SourceExhausted /\ SourceExhausted') => emitted' = emitted]_vars
  /\ [](SourceExhausted => (~done /\ EndPositions = {}))

\* Content was captured and a tool call is held when the source ends: end-of-feed
\* is returned, no End was emitted and the streamer still holds both.
C19_Witness ==
  /\ SourceExhausted
  /\ Len(polled) = 3
  /\ returned = PollReady(None)
  /\ captured_data.content = Some(<<"a">>)
  /\ IsSome(partial_openai_tool_call)
  /\ Len(emitted) = 2
  /\ \A i \in 1..2 : emitted[i].item.tag = "Chunk"

-----------------------------------------------------------------------------
\* A message that makes poll_next return nothing: one with a finish_reason, one
\* without a first choice, one whose first choice has nothing in it
IsNonEmittingMessage(result) ==
  \/ IsChoiceMessage(result, "finish_reason")
  \/ IsChoiceMessage(result, "empty")
  \/ IsUsageMessage(result)

\* C20 as claimed: a poll_next call does a bounded amount of work: it returns at
\* most one event, and it consumes one message of the source at most, the one that
\* produced the event it returns; a call that has consumed a message that emits
\* nothing consumes no further one.
C20_AsClaimed ==
  [][/\ Len(emitted') <= Len(emitted) + 1
     /\ emitted' # emitted => pc' = "idle"
     /\ pc = "loop" => ~(Polls /\ Last(polled').type = "Message")]_vars

\* C20, amended: a poll_next call returns at most one event and returns with it at
\* once, consuming nothing after the message that produced it; but a message that
\* emits nothing does not end the call: the call goes on polling the source after
\* such a message and after no other result, so it consumes every message without
\* an event the source has ready before it returns.
C20_DrainsNonEmitting ==
  [][/\ Len(emitted') <= Len(emitted) + 1
     /\ emitted' # emitted => pc' = "idle"
     /\ Polls => (pc' = "loop" <=> IsNonEmittingMessage(Last(polled')))
     /\ (pc = "loop" /\ pc' = "loop" /\ Polls) => returned' = returned]_vars

\* The first poll_next call has consumed three messages that emit nothing and has
\* not returned.
C20_Witness ==
  /\ pc = "loop"
  /\ returned.poll = "Unpolled"
  /\ Len(polled) = 3
  /\ IsChoiceMessage(polled[1], "finish_reason")
  /\ IsUsageMessage(polled[2])
  /\ IsChoiceMessage(polled[3], "empty")
  /\ emitted = <<>>

-----------------------------------------------------------------------------
\* C21: the step that receives a tool call fragment returns exactly one item, the
\* tool Chunk with the index, id, name and arguments of that fragment alone,
\* whether the fragment started a call, was merged into the held call or displaced
\* it; the call a fragment displaces goes to the captured tools and makes no item.
C21_ChunkOfIncomingFragment ==
  [][(Polls /\ IsToolMessage(Last(polled'))) =>
       /\ emitted' =
            Append(emitted,
                   [item |-> FragmentChunk(Last(polled').data.choice[1].tool_call[1]),
                    at |-> Len(polled')])
       /\ returned' = PollReady(Some(Last(emitted').item))
       /\ pc' = "idle"
       /\ Len(captured_data'.tools) \in {Len(captured_data.tools), Len(captured_data.tools) + 1}]_vars

\* With tools captured: a fragment started a call, a second one was merged into
\* it, a third one displaced it; three Chunks were returned, the second with the
\* arguments of the second fragment alone, and the displaced call is captured.
C21_Witness ==
  /\ options.capture_tools
  /\ Len(polled) = 3
  /\ \A i \in 1..3 : IsToolMessage(polled[i])
  /\ Len(RunsOf(ToolFragments)) = 2
  /\ Len(RunsOf(ToolFragments)[1]) = 2
  /\ Len(emitted) = 3
  /\ emitted[2].item.chunk.tool.arguments = <<"{">>
  /\ emitted[2].item.chunk.tool.id = EmptyString
  /\ Len(captured_data.tools) = 1
  /\ captured_data.tools[1].call_id = <<"c">>

-----------------------------------------------------------------------------
\* A stream whose optional data is missing or malformed: messages at the places
\* usage is read from without a usage key, tool call fragments whose arguments
\* are no JSON.
OptionalFeed ==
  { DoneData, MalformedData,
    UsageData(None),
    FinishData(None, None),
    ToolData(Some(0), Some(<<"c">>), Some(<<"f">>), Some(<<"{">>)),
    ToolData(Some(1), Some(<<"d">>), Some(<<"g">>), Some(<<"1">>)) }

\* Every adapter kind, usage and tools captured or not
OptionalOptions ==
  { StreamerOptions(FALSE, FALSE, u, t, k) : u \in BOOLEAN, t \in BOOLEAN, k \in AdapterKinds }

InitOptional == New(OptionalFeed, MaxPolls, OptionalOptions)

SpecOptional == InitOptional /\ [][Next]_vars

\* The usage key the adapter kind reads in a message at its usage place
UsageKeyOf(result) ==
  IF options.adapter_kind = "Groq" THEN result.data.x_groq_usage ELSE result.data.usage

\* The step writes a usage: usage is captured and the message is at the place of
\* the adapter kind, which for the base dialect also needs that no usage is held
WritesUsage(result) ==
  /\ options.capture_usage
  /\ IsUsagePlace(result)
  /\ IsUsageMessage(result) => captured_data.usage = None

\* C22: missing or malformed optional data makes no stream error. With usage
\* captured, the step that receives a message at the usage place of the adapter
\* kind without the usage key stores the default usage, emits nothing and the loop
\* goes on; with tools captured, a call whose assembled arguments are no JSON is
\* finalized with the null value as its arguments; and the step that receives
\* "[DONE]" after them emits End, so the only errors emitted are those of messages
\* that are no JSON and of the source.
C22_OptionalDataNeverFails ==
  /\ [][Polls =>
          LET r == Last(polled') IN
          /\ (WritesUsage(r) /\ UsageKeyOf(r) = None) =>
               /\ captured_data'.usage = Some(DefaultUsage)
               /\ emitted' = emitted
               /\ pc' = "loop"
          /\ r = EventMessage(DoneData) =>
               /\ Len(emitted') = Len(emitted) + 1
               /\ Last(emitted').item.tag = "End"]_vars
  /\ [](options.capture_tools =>
          LET final == FinalizedRuns(RunsOf(ToolFragments)) IN
          /\ Len(captured_data.tools) = Len(final)
          /\ \A k \in 1..Len(final) :
               JsonFromStr(ConcatOf(final[k], "arguments")) = None =>
                 captured_data.tools[k].fn_arguments = JsonNull)
  /\ [](Cardinality(ErrPositions) =
          Cardinality({ i \in 1..Len(polled) :
                          polled[i] \in {EventMessage(MalformedData), SourceErr} }))

\* Usage and tools captured, base dialect: a message without a first choice and
\* without a usage key, a fragment with the arguments "{" and "[DONE]" were
\* received; End has the default usage and the call with null arguments, and no
\* error was emitted.
C22_Witness ==
  /\ options.capture_usage /\ options.capture_tools
  /\ options.adapter_kind = "OpenAI"
  /\ Len(polled) = 3
  /\ ErrPositions = {}
  /\ done
  /\ EndEvent.captured_usage = Some(DefaultUsage)
  /\ EndEvent.captured_tools =
       << [call_id |-> <<"c">>, fn_name |-> <<"f">>, fn_arguments |-> JsonNull] >>

-----------------------------------------------------------------------------
\* The positions of polled that hold Open
OpenPositions == { i \in 1..Len(polled) : polled[i] = EventOpen }

\* The positions of emitted that hold Start
StartPositions == { i \in 1..Len(emitted) : emitted[i].item = InterStreamEventStart }

\* C23: Start is emitted exactly when the source yields Open: the step that
\* receives Open returns Start and leaves done, the captured data and the held
\* tool call as they were; every Start emitted is the item of an Open, one per
\* Open, and ChatStream relays it as its Start; and when the first result of the
\* source is Open the first item is Start.
C23_StartExactlyOnOpen ==
  /\ [][(Polls /\ Last(polled') = EventOpen) =>
          /\ emitted' = Append(emitted, [item |-> InterStreamEventStart, at |-> Len(polled')])
          /\ returned' = PollReady(Some(InterStreamEventStart))
          /\ chat_returned' = PollReady(Some([tag |-> "Start"]))
          /\ UNCHANGED <<done, captured_data, partial_openai_tool_call>>]_vars
  /\ []( /\ { emitted[i].at : i \in StartPositions } = OpenPositions
         /\ Cardinality(StartPositions) = Cardinality(OpenPositions)
         /\ (polled # <<>> /\ polled[1] = EventOpen) => emitted[1].item = InterStreamEventStart )

\* Open came after a content delta and a tool call fragment were captured: Start
\* is the third item, and the content and the held call are still there.
C23_Witness ==
  /\ Len(polled) = 3
  /\ polled[3] = EventOpen
  /\ StartPositions = {3}
  /\ captured_data.content = Some(<<"a">>)
  /\ IsSome(partial_openai_tool_call)
  /\ ~done

-----------------------------------------------------------------------------
\* C24: poll_next returns Pending exactly when the source is not ready: the step
\* in which the source answers Pending returns Pending, as ChatStream does, and
\* leaves done, the captured data and the held tool call as they were and emits
\* nothing; no other step returns Pending, so whenever the last call returned
\* Pending the last answer of the source was Pending; and a streamer that is done
\* never returns Pending.
C24_PendingOnlyFromSource ==
  /\ [][(Polls /\ Last(polled') = SourcePending) =>
          /\ returned' = PollPending
          /\ chat_returned' = PollPending
          /\ pc' = "idle"
          /\ UNCHANGED <<done, captured_data, partial_openai_tool_call, emitted>>]_vars
  /\ [][(returned' = PollPending /\ returned' # returned) =>
          (Polls /\ Last(polled') = SourcePending)]_vars
  /\ []((returned = PollPending /\ pc = "idle") =>
          (polled # <<>> /\ Last(polled) = SourcePending))
  /\ [](done => returned # PollPending)

\* The source was not ready after a content delta and a tool call fragment were
\* captured: Pending was returned and the content and the held call are still there.
C24_Witness ==
  /\ Len(polled) = 3
  /\ polled[3] = SourcePending
  /\ returned = PollPending
  /\ chat_returned = PollPending
  /\ captured_data.content = Some(<<"a">>)
  /\ IsSome(partial_openai_tool_call)
  /\ Len(emitted) = 2

-----------------------------------------------------------------------------
\* A stream of messages whose first choice has several deltas at once.
PrecedenceFeed ==
  LET tool == ToolJson(Some(0), Some(<<"c">>), Some(<<"f">>), Some(<<"1">>)) IN
  { DoneData, MalformedData,
    JsonData(Some(Choice(Some(<<"s">>), Some(<<"a">>), Some(tool), Some(<<"r">>))), None, None),
    JsonData(Some(Choice(None, Some(<<"a">>), Some(tool), Some(<<"r">>))), None, None),
    JsonData(Some(Choice(None, None, Some(tool), Some(<<"r">>))), None, None),
    ReasoningData(<<"r">>),
    UsageData(Some(3)) }

\* The base dialect, content, reasoning content and tools captured or not
PrecedenceOptions ==
  { StreamerOptions(c, r, FALSE, t, "OpenAI") : c \in BOOLEAN, r \in BOOLEAN, t \in BOOLEAN }

InitPrecedence == New(PrecedenceFeed, MaxPolls, PrecedenceOptions)

SpecPrecedence == InitPrecedence /\ [][Next]_vars

\* C25: a message makes at most one item, chosen among the deltas of its first
\* choice in a fixed order. With a finish_reason nothing is emitted and no delta of
\* the message is captured or merged; otherwise a content delta is the item
\* emitted, and a tool call or reasoning delta next to it is neither emitted,
\* merged nor captured; otherwise a tool call fragment is, and a reasoning delta
\* next to it is neither emitted nor captured; otherwise a reasoning delta is.
C25_FixedPrecedence ==
  [][(Polls /\ Last(polled').type = "Message" /\ Last(polled').data.kind = "json"
        /\ IsSome(Last(polled').data.choice)) =>
       LET c == Last(polled').data.choice[1]
           item(i) == [item |-> i, at |-> Len(polled')]
       IN  /\ Len(emitted') <= Len(emitted) + 1
           /\ IF IsSome(c.finish_reason)
                THEN /\ emitted' = emitted
                     /\ captured_data'.content = captured_data.content
                     /\ captured_data'.reasoning_content = captured_data.reasoning_content
                     /\ captured_data'.tools = captured_data.tools
                     /\ UNCHANGED partial_openai_tool_call
              ELSE IF IsSome(c.content)
                THEN /\ emitted' =
                          Append(emitted,
                                 item(InterStreamEventChunk(InterStreamChunkContent(c.content[1]))))
                     /\ captured_data'.reasoning_content = captured_data.reasoning_content
                     /\ captured_data'.tools = captured_data.tools
                     /\ UNCHANGED partial_openai_tool_call
              ELSE IF IsSome(c.tool_call) /\ IsSome(c.tool_call[1].index)
                THEN /\ emitted' = Append(emitted, item(FragmentChunk(c.tool_call[1])))
                     /\ captured_data'.content = captured_data.content
                     /\ captured_data'.reasoning_content = captured_data.reasoning_content
              ELSE IF IsSome(c.reasoning_content)
                THEN /\ emitted' =
                          Append(emitted,
                                 item(InterStreamEventReasoningChunk(c.reasoning_content[1])))
                     /\ captured_data'.content = captured_data.content
                     /\ captured_data'.tools = captured_data.tools
                     /\ UNCHANGED partial_openai_tool_call
              ELSE emitted' = emitted]_vars

\* Everything captured: a message with a finish_reason and the three deltas was
\* received, then one with a content, a tool call and a reasoning delta, then one
\* with a tool call and a reasoning delta; the first gave nothing, the second the
\* content Chunk and the third the tool Chunk, and no reasoning content was captured.
C25_Witness ==
  /\ options.capture_content /\ options.capture_reasoning_content /\ options.capture_tools
  /\ Len(polled) = 3
  /\ \A i \in 1..3 : /\ polled[i].type = "Message"
                      /\ polled[i].data.kind = "json"
                      /\ IsSome(polled[i].data.choice)
  /\ polled[1].data.choice[1].finish_reason # None
  /\ polled[1].data.choice[1].content # None
  /\ polled[2].data.choice[1].tool_call # None
  /\ polled[3].data.choice[1].reasoning_content # None
  /\ Len(emitted) = 2
  /\ emitted[1] = [item |-> InterStreamEventChunk(InterStreamChunkContent(<<"a">>)), at |-> 2]
  /\ emitted[2].item.tag = "Chunk" /\ emitted[2].item.chunk.kind = "Tool"
  /\ captured_data.content = Some(<<"a">>)
  /\ captured_data.reasoning_content = None
  /\ IsSome(partial_openai_tool_call)

-----------------------------------------------------------------------------
\* The positions of polled that hold a message with a finish_reason
FinishPositions == { i \in 1..Len(polled) : IsChoiceMessage(polled[i], "finish_reason") }

\* The last of a non-empty set of positions
LastOf(positions) == CHOOSE i \in positions : \A j \in positions : j <= i

\* C26: for Groq, xAI and DeepSeek with usage captured the last message with a
\* finish_reason wins: the usage the streamer holds is the usage of the last such
\* message received, the default usage when that message has no usage key, whatever
\* earlier messages carried, and the usage of End is that one.
C26_LastFinishWins ==
  ( /\ options.capture_usage
    /\ options.adapter_kind \in {"Groq", "Xai", "DeepSeek"}
    /\ FinishPositions # {} ) =>
    LET last == polled[LastOf(FinishPositions)]
        usage == Some(TakeUsage(UsageKeyOf(last)))
    IN  IF done THEN /\ EndEvent.captured_usage = usage
                     /\ captured_data.usage = None
                ELSE captured_data.usage = usage

\* Groq with usage captured: a message with a finish_reason and a usage, then one
\* with a finish_reason and no usage, then "[DONE]"; End has the default usage.
C26_Witness ==
  /\ options.adapter_kind = "Groq"
  /\ options.capture_usage
  /\ polled = << EventMessage(FinishData(Some(1), Some(2))),
                 EventMessage(FinishData(None, None)),
                 EventMessage(DoneData) >>
  /\ EndEvent.captured_usage = Some(DefaultUsage)

====
